---------------------------- MODULE Spec2Model ----------------------------
(***************************************************************************)
(* Griffin notebook front end: the application-extension plugins (opener,  *)
(* menus, theme), the GriffinNotebookShell and the GriffinNotebookApp.     *)
(*                                                                         *)
(* JavaScript strings are modelled as sequences of UTF-16 code units       *)
(* (naturals).  Str() turns a tuple of one-character strings into such a   *)
(* sequence, so that the literals below stay readable.                     *)
(***************************************************************************)
EXTENDS Naturals, Sequences, FiniteSets, TLC

\* The printable ASCII characters, code units 32..126 in order.  Three
\* characters a string literal cannot hold plainly are written as words; no
\* literal of this module uses them.
Ascii ==
    <<" ", "!", "DQUOTE", "#", "$", "%", "&", "'", "(", ")", "*", "+", ",",
      "-", ".", "/", "0", "1", "2", "3", "4", "5", "6", "7", "8", "9", ":",
      ";", "<", "=", ">", "?", "@", "A", "B", "C", "D", "E", "F", "G", "H",
      "I", "J", "K", "L", "M", "N", "O", "P", "Q", "R", "S", "T", "U", "V",
      "W", "X", "Y", "Z", "[", "BACKSLASH", "]", "^", "_", "BACKTICK", "a", "b",
      "c", "d", "e", "f", "g", "h", "i", "j", "k", "l", "m", "n", "o", "p",
      "q", "r", "s", "t", "u", "v", "w", "x", "y", "z", "{", "|", "}", "~">>

Ord(c) ==
    31 + (CHOOSE i \in 1..Len(Ascii) : Ascii[i] = c)

Str(t) ==
    [i \in 1..Len(t) |-> Ord(t[i])]

Pct == Ord("%")
Amp == Ord("&")
Eq == Ord("=")
Plus == Ord("+")
Space == Ord(" ")
QMark == Ord("?")

\* Line feed, the line terminator the inputs below use.
LF == 10

\* U+FFFD, what a lossy UTF-8 decoder emits for an ill-formed sequence.
Replacement == 65533

---------------------------------------------------------------------------
(* Hexadecimal digits and UTF-8, shared by both decoders.                  *)

IsHex(c) ==
    \/ c \in Ord("0")..Ord("9")
    \/ c \in Ord("A")..Ord("F")
    \/ c \in Ord("a")..Ord("f")

HexVal(c) ==
    IF c \in Ord("0")..Ord("9") THEN c - Ord("0")
    ELSE IF c \in Ord("A")..Ord("F") THEN c - Ord("A") + 10
    ELSE c - Ord("a") + 10

\* The octet written %XX at position i of s.
ByteAt(s, i) ==
    16 * HexVal(s[i + 1]) + HexVal(s[i + 2])

IsEscape(s, i) ==
    /\ i + 2 <= Len(s)
    /\ s[i] = Pct
    /\ IsHex(s[i + 1])
    /\ IsHex(s[i + 2])

\* Number of leading 1 bits of an octet.
LeadingOnes(b) ==
    IF b < 128 THEN 0
    ELSE IF b < 192 THEN 1
    ELSE IF b < 224 THEN 2
    ELSE IF b < 240 THEN 3
    ELSE IF b < 248 THEN 4
    ELSE 5

\* Range allowed for the second octet of a sequence led by b (well-formed
\* UTF-8: no overlong forms, no surrogates, nothing above U+10FFFF).
SecondLow(b) ==
    IF b = 224 THEN 160 ELSE IF b = 240 THEN 144 ELSE 128

SecondHigh(b) ==
    IF b = 237 THEN 159 ELSE IF b = 244 THEN 143 ELSE 191

IsLead(b) ==
    b \in 194..244

ValidUtf8(o) ==
    /\ IsLead(o[1])
    /\ Len(o) = LeadingOnes(o[1])
    /\ o[2] \in SecondLow(o[1])..SecondHigh(o[1])
    /\ \A j \in 3..Len(o) : o[j] \in 128..191

RECURSIVE Payload(_, _)
Payload(o, j) ==
    IF j = 1 THEN
        (IF Len(o) = 2 THEN o[1] % 32 ELSE IF Len(o) = 3 THEN o[1] % 16 ELSE o[1] % 8)
    ELSE 64 * Payload(o, j - 1) + (o[j] % 64)

CodePoint(o) ==
    Payload(o, Len(o))

\* The UTF-16 code units of a code point.
Utf16(cp) ==
    IF cp < 65536 THEN <<cp>>
    ELSE <<55296 + ((cp - 65536) \div 1024), 56320 + ((cp - 65536) % 1024)>>

---------------------------------------------------------------------------
(* decodeURIComponent: the result is the decoded string, or a URIError.    *)

Thrown ==
    [err |-> TRUE, val |-> <<>>]

Cons(units, r) ==
    IF r.err THEN r ELSE [err |-> FALSE, val |-> units \o r.val]

RECURSIVE DecodeFrom(_, _)
DecodeFrom(s, i) ==
    IF i > Len(s) THEN [err |-> FALSE, val |-> <<>>]
    ELSE IF s[i] # Pct THEN Cons(<<s[i]>>, DecodeFrom(s, i + 1))
    ELSE IF ~IsEscape(s, i) THEN Thrown
    ELSE
        LET B == ByteAt(s, i)
            n == LeadingOnes(B)
        IN  IF n = 0 THEN Cons(<<B>>, DecodeFrom(s, i + 3))
            ELSE IF n = 1 \/ n > 4 THEN Thrown
            ELSE IF i + 3 * n - 1 > Len(s) THEN Thrown
            ELSE IF \E j \in 1..(n - 1) : ~IsEscape(s, i + 3 * j) THEN Thrown
            ELSE
                LET octets == [j \in 1..n |-> ByteAt(s, i + 3 * (j - 1))]
                IN  IF ~ValidUtf8(octets) THEN Thrown
                    ELSE Cons(Utf16(CodePoint(octets)), DecodeFrom(s, i + 3 * n))

\* A decoder that leaves escapes as they are.
DecodeNoEscapes(s) ==
    [err |-> FALSE, val |-> s]

decodeURIComponent(s) ==
    DecodeFrom(s, 1)

---------------------------------------------------------------------------
\* TREE_PATTERN (slash, group 1 = griffin-notebooks, slash, group 2 = any
\* run of non-terminators) and String.prototype.match.

TreeSegment ==
    Str(<<"g", "r", "i", "f", "f", "i", "n", "-", "n", "o", "t", "e", "b",
          "o", "o", "k", "s">>)

\* The literal part of the pattern: '/', group 1, '/'.
TreeLiteral ==
    <<Ord("/")>> \o TreeSegment \o <<Ord("/")>>

\* '.' matches every code unit but the line terminators.
IsLineTerminator(c) ==
    c \in {10, 13, 8232, 8233}

OccursAt(s, pat, i) ==
    /\ i + Len(pat) - 1 <= Len(s)
    /\ SubSeq(s, i, i + Len(pat) - 1) = pat

\* A pattern with no anchor matches at the leftmost position it occurs at;
\* 0 when it occurs nowhere.
FirstOccurrence(s, pat) ==
    IF \E i \in 1..Len(s) : OccursAt(s, pat, i)
    THEN CHOOSE i \in 1..Len(s) :
            /\ OccursAt(s, pat, i)
            /\ \A j \in 1..(i - 1) : ~OccursAt(s, pat, j)
    ELSE 0

\* (.*) is greedy: from position i, every code unit up to the first line
\* terminator or the end of the string.
RECURSIVE DotStar(_, _)
DotStar(s, i) ==
    IF i > Len(s) \/ IsLineTerminator(s[i]) THEN <<>>
    ELSE <<s[i]>> \o DotStar(s, i + 1)

\* parsed.path.match(TREE_PATTERN) ?? [] followed by const [, , path]:
\* matched is FALSE when path is undefined.
TreeMatch(p) ==
    LET at == FirstOccurrence(p, TreeLiteral)
    IN  IF at = 0 THEN [matched |-> FALSE, path |-> <<>>]
        ELSE [matched |-> TRUE, path |-> DotStar(p, at + Len(TreeLiteral))]

---------------------------------------------------------------------------
\* new URLSearchParams(parsed.search) and its get('factory'): the
\* application/x-www-form-urlencoded parser of the platform.

RECURSIVE IndexFrom(_, _, _)
\* Least position >= i of s that holds c; Len(s) + 1 when there is none.
IndexFrom(s, c, i) ==
    IF i > Len(s) THEN Len(s) + 1
    ELSE IF s[i] = c THEN i
    ELSE IndexFrom(s, c, i + 1)

RECURSIVE SplitFrom(_, _, _)
\* The pieces of s from position i on, cut at every c.
SplitFrom(s, c, i) ==
    LET k == IndexFrom(s, c, i)
    IN  IF k > Len(s) THEN <<SubSeq(s, i, Len(s))>>
        ELSE <<SubSeq(s, i, k - 1)>> \o SplitFrom(s, c, k + 1)

\* '+' stands for a space in a form-encoded name or value.
PlusToSpace(s) ==
    [i \in 1..Len(s) |-> IF s[i] = Plus THEN Space ELSE s[i]]

RECURSIVE PercentDecode(_, _)
\* Lenient percent-decoding: an escape becomes its octet (0..255), a '%' that
\* starts no escape stays, an ASCII code unit is its own octet, and any other
\* code unit c is carried as 256 + c (its own UTF-8 encoding decodes to it).
PercentDecode(s, i) ==
    IF i > Len(s) THEN <<>>
    ELSE IF IsEscape(s, i) THEN <<ByteAt(s, i)>> \o PercentDecode(s, i + 3)
    ELSE IF s[i] < 128 THEN <<s[i]>> \o PercentDecode(s, i + 1)
    ELSE <<256 + s[i]>> \o PercentDecode(s, i + 1)

RECURSIVE Continuations(_, _, _, _)
\* How many of the next `want` items of u after the lead at i continue it.
Continuations(u, i, j, want) ==
    IF j > want \/ i + j > Len(u) THEN j - 1
    ELSE
        LET b == u[i + j]
            lo == IF j = 1 THEN SecondLow(u[i]) ELSE 128
            hi == IF j = 1 THEN SecondHigh(u[i]) ELSE 191
        IN  IF b \in lo..hi THEN Continuations(u, i, j + 1, want) ELSE j - 1

RECURSIVE Utf8DecodeLossy(_, _)
\* UTF-8 decode without BOM: an ill-formed sequence yields U+FFFD and
\* decoding resumes at the item that broke it.
Utf8DecodeLossy(u, i) ==
    IF i > Len(u) THEN <<>>
    ELSE IF u[i] >= 256 THEN <<u[i] - 256>> \o Utf8DecodeLossy(u, i + 1)
    ELSE IF u[i] < 128 THEN <<u[i]>> \o Utf8DecodeLossy(u, i + 1)
    ELSE IF ~IsLead(u[i]) THEN <<Replacement>> \o Utf8DecodeLossy(u, i + 1)
    ELSE
        LET n == LeadingOnes(u[i])
            k == Continuations(u, i, 1, n - 1)
        IN  IF k = n - 1
            THEN Utf16(CodePoint(SubSeq(u, i, i + k))) \o Utf8DecodeLossy(u, i + n)
            ELSE <<Replacement>> \o Utf8DecodeLossy(u, i + 1 + k)

FormDecode(s) ==
    Utf8DecodeLossy(PercentDecode(PlusToSpace(s), 1), 1)

\* One name/value pair of the query: cut at the first '=', the value empty
\* when there is none.
ParsePair(seg) ==
    LET k == IndexFrom(seg, Eq, 1)
    IN  [name |-> FormDecode(SubSeq(seg, 1, k - 1)),
         value |-> FormDecode(SubSeq(seg, k + 1, Len(seg)))]

\* The list of pairs of a URLSearchParams built from a string: one leading
\* '?' is dropped, the rest is cut at '&', empty pieces are skipped.
URLSearchParams(search) ==
    LET body == IF Len(search) > 0 /\ search[1] = QMark THEN Tail(search) ELSE search
        segs == SelectSeq(SplitFrom(body, Amp, 1), LAMBDA seg : seg # <<>>)
    IN  [i \in 1..Len(segs) |-> ParsePair(segs[i])]

FactoryKey ==
    Str(<<"f", "a", "c", "t", "o", "r", "y">>)

DefaultFactory ==
    Str(<<"d", "e", "f", "a", "u", "l", "t">>)

\* A lookup that takes the last pair called name.
GetLast(params, name) ==
    LET hits == SelectSeq(params, LAMBDA pr : pr.name = name)
    IN  IF hits = <<>> THEN [found |-> FALSE, value |-> <<>>]
        ELSE [found |-> TRUE, value |-> hits[Len(hits)].value]

\* get(name): the value of the first pair called name; found is FALSE for null.
Get(params, name) ==
    LET hits == SelectSeq(params, LAMBDA pr : pr.name = name)
    IN  IF hits = <<>> THEN [found |-> FALSE, value |-> <<>>]
        ELSE [found |-> TRUE, value |-> hits[1].value]

\* urlParams.get('factory') ?? 'default'
Factory(search) ==
    LET got == Get(URLSearchParams(search), FactoryKey)
    IN  IF got.found THEN got.value ELSE DefaultFactory

---------------------------------------------------------------------------
(* The opener plugin: the 'router:tree' command.                           *)

\* docManager.open(file, factory, undefined, { ref: '_noref' })
OpenRequest(file, factory) ==
    [path |-> file, widgetName |-> factory, kernel |-> "undefined", ref |-> "_noref"]

\* A test that lets the empty capture through.
FalsyUndefinedOnly(m) ==
    ~m.matched

\* !path: the capture is undefined (no match) or the empty string.
Falsy(m) ==
    ~m.matched \/ m.path = <<>>

\* What one execution of the command does before it returns: it returns
\* early, throws out of decodeURIComponent, or registers one continuation
\* on app.started.
Execute(path, search) ==
    LET m == TreeMatch(path)
    IN  IF Falsy(m) THEN [kind |-> "returned", then |-> <<>>]
        ELSE
            LET file == decodeURIComponent(m.path)
            IN  IF file.err THEN [kind |-> "URIError", then |-> <<>>]
                ELSE [kind |-> "scheduled",
                      then |-> <<OpenRequest(file.val, Factory(search))>>]

---------------------------------------------------------------------------
(* The shell and the application.                                          *)

\* new NotebookShell(): the base shell, its top panel shown.
NotebookShell ==
    [class |-> "NotebookShell", topHidden |-> FALSE, expandCalls |-> 0]

\* NotebookShell.collapseTop and NotebookShell.expandTop of the base class.
collapseTop(sh) ==
    [sh EXCEPT !.topHidden = TRUE]

BaseExpandTop(sh) ==
    [sh EXCEPT !.topHidden = FALSE]

\* constructor() { super(); this.collapseTop(); }
GriffinNotebookShell ==
    collapseTop([NotebookShell EXCEPT !.class = "GriffinNotebookShell"])

\* An expandTop that is not overridden.
InheritedExpandTop(sh) ==
    BaseExpandTop(sh)

\* expandTop(): void { }
GriffinExpandTop(sh) ==
    sh

\* sh.expandTop(), dispatched on the class of sh.
expandTop(sh) ==
    IF sh.class = "GriffinNotebookShell" THEN GriffinExpandTop(sh)
    ELSE BaseExpandTop(sh)

\* No shell: the value of an options.shell that is undefined or missing.
Undefined == 0

\* A constructor that ignores the shell it is given.
ConstructAlwaysDefault(heap, arg) ==
    [heap |-> Append(heap, GriffinNotebookShell),
     super |-> [shell |-> Len(heap) + 1,
                fields |-> IF arg.given THEN arg.options.fields ELSE {}]]

\* new GriffinNotebookApp(arg) on the heap of shells: arg.given is FALSE for
\* a call with no argument.  The default of the parameter is evaluated only
\* then; the shell is defaulted again when options.shell is undefined.  The
\* result is the heap afterwards and the options handed to NotebookApp.
Construct(heap, arg) ==
    LET heap1 == IF arg.given THEN heap ELSE Append(heap, GriffinNotebookShell)
        options == IF arg.given THEN arg.options
                   ELSE [shell |-> Len(heap) + 1, fields |-> {}]
        heap2 == IF options.shell = Undefined
                 THEN Append(heap1, GriffinNotebookShell) ELSE heap1
        shell == IF options.shell = Undefined THEN Len(heap1) + 1 ELSE options.shell
    IN  [heap |-> heap2, super |-> [shell |-> shell, fields |-> options.fields]]

---------------------------------------------------------------------------
(* The menus and theme plugins.                                            *)

\* The menus of IMainMenu.
Menus ==
    {"fileMenu", "editMenu", "viewMenu", "runMenu", "kernelMenu", "tabsMenu",
     "settingsMenu", "helpMenu"}

\* menu.dispose(): disposing a disposed menu changes nothing.
dispose(disposed, m) ==
    [disposed EXCEPT ![m] = TRUE]

\* An activation that disposes the edit menu in place of the tabs menu.
MenusEffectEdit(disposed) ==
    dispose(dispose(disposed, "fileMenu"), "editMenu")

\* menus.activate: menu.fileMenu.dispose(); menu.tabsMenu.dispose();
MenusEffect(disposed) ==
    dispose(dispose(disposed, "fileMenu"), "tabsMenu")

\* PageConfig.getOption(name): the empty string for an option that is not set.
getOption(config, name) ==
    IF name \in DOMAIN config THEN config[name] ELSE ""

\* An activation that takes any non-empty flag for dark.
ThemeEffectTruthy(config) ==
    IF getOption(config, "darkTheme") # "" THEN <<"JupyterLab Dark">>
    ELSE <<"JupyterLab Light">>

\* The setTheme calls of one activation of the theme plugin.
ThemeEffect(config) ==
    IF getOption(config, "darkTheme") = "true" THEN <<"JupyterLab Dark">>
    ELSE <<"JupyterLab Light">>

---------------------------------------------------------------------------
(* Bounds and inputs.                                                      *)

\* Executions of the route command in one run.
MaxCommands == 2

\* Shells on the heap, and expandTop calls counted per shell.
MaxShells == 2
MaxExpand == 2

\* Activations of one plugin (the host activates each once; a second
\* activation is what idempotence is about).
MaxActivations == 2

Hex ==
    Str(<<"0", "1", "2", "3", "4", "5", "6", "7", "8", "9", "A", "B", "C", "D", "E", "F">>)

EscapeOctet(b) ==
    <<Pct, Hex[(b \div 16) + 1], Hex[(b % 16) + 1]>>

\* The UTF-8 octets of a code point.
Utf8Octets(cp) ==
    IF cp < 128 THEN <<cp>>
    ELSE IF cp < 2048 THEN <<192 + (cp \div 64), 128 + (cp % 64)>>
    ELSE IF cp < 65536
        THEN <<224 + (cp \div 4096), 128 + ((cp \div 64) % 64), 128 + (cp % 64)>>
    ELSE <<240 + (cp \div 262144), 128 + ((cp \div 4096) % 64),
           128 + ((cp \div 64) % 64), 128 + (cp % 64)>>

RECURSIVE Flatten(_)
Flatten(ss) ==
    IF ss = <<>> THEN <<>> ELSE Head(ss) \o Flatten(Tail(ss))

IsAlnum(c) ==
    \/ c \in Ord("0")..Ord("9")
    \/ c \in Ord("A")..Ord("Z")
    \/ c \in Ord("a")..Ord("z")

\* Percent-encoding of a sequence of code points, every code point escaped
\* but those of `plain`.
EscapeAllBut(cps, plain) ==
    Flatten([i \in 1..Len(cps) |->
        IF cps[i] \in plain THEN <<cps[i]>>
        ELSE Flatten([j \in 1..Len(Utf8Octets(cps[i])) |->
                        EscapeOctet(Utf8Octets(cps[i])[j])])])

\* encodeURIComponent leaves the unreserved characters alone.
Unreserved ==
    {c \in 32..126 : IsAlnum(c)}
        \cup {Ord("-"), Ord("_"), Ord("."), Ord("!"), Ord("~"), Ord("*"), Ord("'"),
              Ord("("), Ord(")")}

EncodeURIComponent(cps) ==
    EscapeAllBut(cps, Unreserved)

\* Document identifiers, as sequences of code points.
Ids ==
    { Str(<<"f", "o", "o", "/", "b", "a", "r", ".", "i", "p", "y", "n", "b">>),
      Str(<<"a", ".", "i", "p", "y", "n", "b">>),
      Str(<<"1", "0", "0", "%">>),
      <<Ord("a"), LF, Ord("b")>>,
      <<233, Ord("t"), 2308>>,
      <<128512>> }

\* The UTF-16 form of an identifier.
ToUtf16(cps) ==
    Flatten([i \in 1..Len(cps) |-> Utf16(cps[i])])

\* Remainders that are no encoding of an identifier: empty, ill-formed
\* escapes, a second tree segment.
RawRests ==
    { <<>>,
      Str(<<"1", "0", "0", "%">>),
      Str(<<"%", "E", "0", "%", "A", "4", "%", "A">>),
      Str(<<"%", "C", "3", "%", "2", "8">>),
      Str(<<"x">>) \o TreeLiteral \o Str(<<"y">>) }

\* Remainders that hold a raw line terminator.
TerminatorRests ==
    { <<Ord("a"), LF, Ord("b")>>, <<LF, Ord("b")>> }

Rests ==
    {EncodeURIComponent(id) : id \in Ids} \cup RawRests

Heads ==
    { TreeLiteral,
      Str(<<"/", "x">>) \o TreeLiteral,
      <<Ord("/")>> \o TreeSegment,
      Str(<<"/", "t", "r", "e", "e", "/">>) }

Paths ==
    {h \o r : h \in Heads, r \in Rests}
        \cup {TreeLiteral \o r : r \in TerminatorRests}

\* Decoded name/value pairs of a query, and their form-urlencoded serialisation.
Names ==
    { Str(<<"N", "o", "t", "e", "b", "o", "o", "k">>),
      Str(<<"a", " ", "b", "&", "c">>),
      <<>> }

Pairs ==
    {[name |-> FactoryKey, value |-> v] : v \in Names}
        \cup {[name |-> Str(<<"k", "e", "r", "n", "e", "l">>), value |-> Str(<<"x">>)]}

ParamLists ==
    {<<>>} \cup {<<a>> : a \in Pairs} \cup {<<a, b>> : a \in Pairs, b \in Pairs}

FormUnreserved ==
    {c \in 32..126 : IsAlnum(c)} \cup {Ord("*"), Ord("-"), Ord("."), Ord("_")}

FormEncode(cps) ==
    LET esc == EscapeAllBut(cps, FormUnreserved \cup {Space})
    IN  [i \in 1..Len(esc) |-> IF esc[i] = Space THEN Plus ELSE esc[i]]

RECURSIVE JoinPairs(_)
JoinPairs(ps) ==
    IF ps = <<>> THEN <<>>
    ELSE FormEncode(Head(ps).name) \o <<Eq>> \o FormEncode(Head(ps).value)
            \o (IF Len(ps) > 1 THEN <<Amp>> \o JoinPairs(Tail(ps)) ELSE <<>>)

\* location.search for a list of pairs: empty, or '?' and the pairs.
Serialize(ps) ==
    IF ps = <<>> THEN <<>> ELSE <<QMark>> \o JoinPairs(ps)

\* Queries that no serialiser writes.
RawSearches ==
    { Str(<<"?", "f", "a", "c", "t", "o", "r", "y">>),
      Str(<<"f", "a", "c", "t", "o", "r", "y", "=", "E", "d", "i", "t", "o", "r">>),
      Str(<<"?", "x", "f", "a", "c", "t", "o", "r", "y", "=", "E", "d", "i", "t", "o", "r">>),
      Str(<<"?", "f", "a", "c", "t", "o", "r", "y", "=", "a", "+", "b", "%", "2", "0", "c">>) }

Searches ==
    {Serialize(ps) : ps \in ParamLists} \cup RawSearches

PlainPath ==
    TreeLiteral \o Str(<<"a", ".", "i", "p", "y", "n", "b">>)

\* The locations the route command is executed with.
Locations ==
    {[path |-> p, search |-> <<>>] : p \in Paths}
        \cup {[path |-> PlainPath, search |-> q] : q \in Searches}
        \cup {[path |-> p, search |-> Serialize(<<a>>)] :
                p \in {TreeLiteral, Str(<<"/", "t", "r", "e", "e", "/">>)}, a \in Pairs}

\* The value of the darkTheme option, when the page sets it.
ThemeFlags ==
    {"true", "false", "True", "TRUE", "1", "", "dark"}

\* The page configuration before the server handler sets anything.
EmptyConfig ==
    [k \in {} |-> ""]

\* Other fields of NotebookApp.IOptions a caller may set.
FieldSets ==
    SUBSET {<<"mimeExtensions", "m1">>, <<"capabilities", "c1">>}

---------------------------------------------------------------------------
(* State.                                                                  *)

VARIABLES
    commands,          \* ids in app.commands
    rules,             \* commands the router dispatches TREE_PATTERN to
    started,           \* app.started has resolved
    pending,           \* continuations registered on app.started, in order
    opened,            \* the calls docManager.open has received, in order
    args,              \* the location of the last execution of the command
    outcome,           \* how that execution ended
    executed,          \* executions so far
    shells,            \* the shells constructed so far
    appBuilt,          \* a GriffinNotebookApp has been constructed
    ctorArg,           \* the argument its constructor was called with
    superOptions,      \* the options its constructor handed to NotebookApp
    ctorMade,          \* shells its constructor constructed
    menuDisposed,      \* isDisposed of each menu of the main menu
    menuActivations,   \* activations of the menus plugin
    pageConfig,        \* the page configuration
    themeCalls,        \* the calls themeManager.setTheme has received
    themeActivations   \* activations of the theme plugin

openerVars == <<commands, rules, started, pending, opened, args, outcome, executed>>
appVars == <<shells, appBuilt, ctorArg, superOptions, ctorMade>>
pluginVars == <<menuDisposed, menuActivations, pageConfig, themeCalls, themeActivations>>
vars == <<openerVars, appVars, pluginVars>>

NoArg ==
    [given |-> FALSE, options |-> [shell |-> Undefined, fields |-> {}]]

Init ==
    /\ commands = {}
    /\ rules = {}
    /\ started = FALSE
    /\ pending = <<>>
    /\ opened = <<>>
    /\ args = [path |-> <<>>, search |-> <<>>]
    /\ outcome = "idle"
    /\ executed = 0
    /\ shells = <<>>
    /\ appBuilt = FALSE
    /\ ctorArg = NoArg
    /\ superOptions = [shell |-> Undefined, fields |-> {}]
    /\ ctorMade = 0
    /\ menuDisposed = [m \in Menus |-> FALSE]
    /\ menuActivations = 0
    /\ pageConfig = EmptyConfig
    /\ themeCalls = <<>>
    /\ themeActivations = 0

---------------------------------------------------------------------------
(* The opener plugin.                                                      *)

\* opener.activate: commands.addCommand and router.register.
OpenerActivate ==
    /\ "router:tree" \notin commands
    /\ commands' = commands \cup {"router:tree"}
    /\ rules' = rules \cup {"router:tree"}
    /\ UNCHANGED <<started, pending, opened, args, outcome, executed>>
    /\ UNCHANGED <<appVars, pluginVars>>

\* Execute, tabulated over the locations.
Routed ==
    [loc \in Locations |-> Execute(loc.path, loc.search)]

\* commands.execute('router:tree', loc)
RouteTree(loc) ==
    /\ "router:tree" \in commands
    /\ executed < MaxCommands
    /\ LET r == Routed[loc]
       IN  /\ pending' = pending \o r.then
           /\ outcome' = r.kind
    /\ args' = loc
    /\ executed' = executed + 1
    /\ UNCHANGED <<commands, rules, started, opened>>
    /\ UNCHANGED <<appVars, pluginVars>>

\* app.started resolves, once the plugins that start with the application
\* have been activated.
Started ==
    /\ ~started
    /\ "router:tree" \in commands
    /\ started' = TRUE
    /\ UNCHANGED <<commands, rules, pending, opened, args, outcome, executed>>
    /\ UNCHANGED <<appVars, pluginVars>>

\* A continuation that does not wait.
ReadyAlways ==
    TRUE

\* app.started.then(...): a continuation runs only after the promise resolved.
Ready ==
    started

\* The oldest continuation runs: docManager.open(file, factory, undefined, ...)
RunContinuation ==
    /\ Ready
    /\ pending # <<>>
    /\ opened' = Append(opened, Head(pending))
    /\ pending' = Tail(pending)
    /\ UNCHANGED <<commands, rules, started, args, outcome, executed>>
    /\ UNCHANGED <<appVars, pluginVars>>

NextOpener ==
    \/ OpenerActivate
    \/ \E loc \in Locations : RouteTree(loc)
    \/ Started
    \/ RunContinuation

SpecOpener ==
    Init /\ [][NextOpener]_vars

---------------------------------------------------------------------------
(* The shell and the application.                                          *)

\* new GriffinNotebookShell(), or new NotebookShell(), by a caller.
NewShell(sh) ==
    /\ Len(shells) < MaxShells
    /\ shells' = Append(shells, sh)
    /\ UNCHANGED <<appBuilt, ctorArg, superOptions, ctorMade>>
    /\ UNCHANGED <<openerVars, pluginVars>>

\* shells[i].expandTop()
ExpandTopCall(i) ==
    /\ shells[i].expandCalls < MaxExpand
    /\ shells' = [shells EXCEPT ![i] =
            [expandTop(shells[i]) EXCEPT !.expandCalls = shells[i].expandCalls + 1]]
    /\ UNCHANGED <<appBuilt, ctorArg, superOptions, ctorMade>>
    /\ UNCHANGED <<openerVars, pluginVars>>

\* shells[i].collapseTop()
CollapseTopCall(i) ==
    /\ ~shells[i].topHidden
    /\ shells' = [shells EXCEPT ![i] = collapseTop(shells[i])]
    /\ UNCHANGED <<appBuilt, ctorArg, superOptions, ctorMade>>
    /\ UNCHANGED <<openerVars, pluginVars>>

\* The arguments a caller can pass: none, or options with or without a shell
\* it constructed.
AppArgs ==
    {NoArg} \cup
    {[given |-> TRUE, options |-> [shell |-> sh, fields |-> f]] :
        sh \in {Undefined} \cup (1..Len(shells)), f \in FieldSets}

\* new GriffinNotebookApp(arg)
ConstructApp(arg) ==
    /\ ~appBuilt
    /\ LET r == Construct(shells, arg)
       IN  /\ Len(r.heap) <= MaxShells
           /\ shells' = r.heap
           /\ superOptions' = r.super
           /\ ctorMade' = Len(r.heap) - Len(shells)
    /\ appBuilt' = TRUE
    /\ ctorArg' = arg
    /\ UNCHANGED <<openerVars, pluginVars>>

Next ==
    \/ NewShell(GriffinNotebookShell)
    \/ NewShell(NotebookShell)
    \/ \E i \in 1..Len(shells) : ExpandTopCall(i)
    \/ \E i \in 1..Len(shells) : CollapseTopCall(i)
    \/ \E arg \in AppArgs : ConstructApp(arg)

Spec ==
    Init /\ [][Next]_vars

---------------------------------------------------------------------------
(* The menus and theme plugins.                                            *)

\* The server handler sets the darkTheme option of the page it serves,
\* before any plugin is activated.
SetDarkTheme(v) ==
    /\ pageConfig = EmptyConfig
    /\ themeActivations = 0
    /\ menuActivations = 0
    /\ commands = {}
    /\ pageConfig' = [k \in {"darkTheme"} |-> v]
    /\ UNCHANGED <<menuDisposed, menuActivations, themeCalls, themeActivations>>
    /\ UNCHANGED <<openerVars, appVars>>

\* menus.activate
MenusActivate ==
    /\ menuActivations < MaxActivations
    /\ menuDisposed' = MenusEffect(menuDisposed)
    /\ menuActivations' = menuActivations + 1
    /\ UNCHANGED <<pageConfig, themeCalls, themeActivations>>
    /\ UNCHANGED <<openerVars, appVars>>

\* theme.activate
ThemeActivate ==
    /\ themeActivations < MaxActivations
    /\ themeCalls' = themeCalls \o ThemeEffect(pageConfig)
    /\ themeActivations' = themeActivations + 1
    /\ UNCHANGED <<pageConfig, menuDisposed, menuActivations>>
    /\ UNCHANGED <<openerVars, appVars>>

\* The plugins the module exports, activated by the host in any order.
NextPlugins ==
    \/ \E v \in ThemeFlags : SetDarkTheme(v)
    \/ MenusActivate
    \/ OpenerActivate
    \/ ThemeActivate

SpecPlugins ==
    Init /\ [][NextPlugins]_vars

---------------------------------------------------------------------------
(* Properties of the opener plugin, checked under SpecOpener.              *)

StartsWith(s, pre) ==
    OccursAt(s, pre, 1)

Contains(s, pat) ==
    \E i \in 1..Len(s) : OccursAt(s, pat, i)

\* What follows the tree literal in a path that starts with it.
Remainder(p) ==
    SubSeq(p, Len(TreeLiteral) + 1, Len(p))

\* The continuations registered so far, run or not, oldest first.
Scheduled ==
    opened \o pending

\* The request the last execution registered, when it registered one.
LastRequest ==
    Scheduled[Len(Scheduled)]

Issued ==
    outcome = "scheduled" /\ Scheduled # <<>>

\* C1: for a path that does not begin with the tree literal the command
\* registers no open request, wherever else in the path the literal may occur.
C1_NoActionUnlessPrefix ==
    (executed > 0 /\ ~StartsWith(args.path, TreeLiteral)) => ~Issued

\* C2 as stated: whenever a request is issued for a path that is the tree
\* literal followed by a non-empty remainder, its identifier is the
\* percent-decoding of the whole remainder.
C2_WholeRemainderDecoded ==
    (Issued /\ StartsWith(args.path, TreeLiteral) /\ Remainder(args.path) # <<>>)
        => LastRequest.path = decodeURIComponent(Remainder(args.path)).val

HasTerminator(s) ==
    \E i \in 1..Len(s) : IsLineTerminator(s[i])

\* C2, amended: for a remainder that is well-formed percent-encoding and
\* holds no raw line terminator, a request is issued and its identifier is
\* the decoding of the whole remainder: routing the encoding of an identifier
\* gives the identifier back, and a remainder without escapes is its own
\* identifier.
C2_EncodedIdRoundTrip ==
    /\ \A id \in Ids :
            args.path = TreeLiteral \o EncodeURIComponent(id)
                => (Issued /\ LastRequest.path = ToUtf16(id))
    /\ (/\ executed > 0
        /\ StartsWith(args.path, TreeLiteral)
        /\ Remainder(args.path) # <<>>
        /\ ~HasTerminator(Remainder(args.path))
        /\ \A i \in 1..Len(Remainder(args.path)) : Remainder(args.path)[i] # Pct)
            => (Issued /\ LastRequest.path = Remainder(args.path))

C2_Witness ==
    /\ Issued
    /\ args.path = TreeLiteral
            \o Str(<<"f", "o", "o", "%", "2", "F", "b", "a", "r", ".", "i", "p", "y", "n", "b">>)
    /\ LastRequest.path
            = Str(<<"f", "o", "o", "/", "b", "a", "r", ".", "i", "p", "y", "n", "b">>)

\* C3: while app.started is unresolved docManager.open has received no call,
\* however many matching commands were executed; their requests stay pending.
C3_NoOpenBeforeStarted ==
    ~started => (opened = <<>> /\ (Issued => pending # <<>>))

C3_Witness ==
    ~started /\ Len(pending) >= 2 /\ opened = <<>>

\* The capture of group 2 is missing or empty: the literal occurs nowhere in
\* the path, or nothing but a line terminator follows its first occurrence.
NoCapture(p) ==
    \A i \in 1..Len(p) :
        (OccursAt(p, TreeLiteral, i) /\ \A j \in 1..(i - 1) : ~OccursAt(p, TreeLiteral, j))
            => (\/ i + Len(TreeLiteral) > Len(p)
                \/ IsLineTerminator(p[i + Len(TreeLiteral)]))

\* C4: an execution whose capture is missing or empty returns at once: it
\* registers no continuation, issues no open request and does not fail.
C4_EmptyCaptureIsNoOp ==
    [][(executed' = executed + 1 /\ NoCapture(args'.path))
        => (pending' = pending /\ opened' = opened /\ outcome' = "returned")]_vars

C4_Witness ==
    /\ executed = 2
    /\ args.path = TreeLiteral
    /\ outcome = "returned"
    /\ Len(pending) = 1

\* C5 as stated: the view-kind equals the value of every factory pair the
\* query holds, and is 'default' when it holds none.
C5_EveryFactoryPair ==
    \A ps \in ParamLists :
        (Issued /\ args.search = Serialize(ps))
            => /\ \A i \in 1..Len(ps) :
                    ps[i].name = FactoryKey => LastRequest.widgetName = ps[i].value
               /\ (\A i \in 1..Len(ps) : ps[i].name # FactoryKey)
                    => LastRequest.widgetName = DefaultFactory

RECURSIVE FirstValue(_, _)
\* The value of the first pair of ps called name, 'default' when there is none.
FirstValue(ps, name) ==
    IF ps = <<>> THEN DefaultFactory
    ELSE IF Head(ps).name = name THEN Head(ps).value
    ELSE FirstValue(Tail(ps), name)

\* C5, amended: the view-kind is the decoded value of the first pair whose
\* key is exactly factory (the empty string when that value is empty or the
\* key carries no '='), and 'default' when no pair has that key.
C5_FirstFactoryPair ==
    Issued =>
        /\ \A ps \in ParamLists :
                args.search = Serialize(ps)
                    => LastRequest.widgetName = FirstValue(ps, FactoryKey)
        /\ args.search = Str(<<"?", "f", "a", "c", "t", "o", "r", "y">>)
                => LastRequest.widgetName = <<>>
        /\ args.search = Str(<<"f", "a", "c", "t", "o", "r", "y", "=", "E", "d", "i", "t", "o", "r">>)
                => LastRequest.widgetName = Str(<<"E", "d", "i", "t", "o", "r">>)
        /\ args.search = Str(<<"?", "x", "f", "a", "c", "t", "o", "r", "y", "=", "E", "d", "i", "t", "o", "r">>)
                => LastRequest.widgetName = DefaultFactory
        /\ args.search = Str(<<"?", "f", "a", "c", "t", "o", "r", "y", "=", "a", "+", "b", "%", "2", "0", "c">>)
                => LastRequest.widgetName = Str(<<"a", " ", "b", " ", "c">>)

C5_Witness ==
    /\ Issued
    /\ \E ps \in ParamLists :
            /\ Len(ps) = 2
            /\ ps[1].name = FactoryKey
            /\ ps[2].name = FactoryKey
            /\ ps[1].value # ps[2].value
            /\ args.search = Serialize(ps)
            /\ LastRequest.widgetName = ps[1].value

\* C10: no execution of the command fails, whatever the path and the query.
C10_NeverFails ==
    outcome # "URIError"

---------------------------------------------------------------------------
(* Properties of the shell and the application, checked under Spec.        *)

\* C6: the top panel of a GriffinNotebookShell is hidden from construction
\* on, whatever number of expandTop calls it has received.
C6_TopStaysHidden ==
    \A i \in 1..Len(shells) :
        shells[i].class = "GriffinNotebookShell" => shells[i].topHidden

C6_Witness ==
    \E i \in 1..Len(shells) :
        /\ shells[i].class = "GriffinNotebookShell"
        /\ shells[i].expandCalls >= 2
        /\ shells[i].topHidden

\* C9: the constructor hands NotebookApp a shell: with no argument, or with
\* options that hold no shell, exactly one GriffinNotebookShell is constructed
\* (top panel hidden) and handed over; a supplied shell is handed over as it
\* is and none is constructed; the other fields pass through unchanged.
C9_ShellDefaulting ==
    [][(~appBuilt /\ appBuilt')
        => /\ superOptions'.fields
                = (IF ctorArg'.given THEN ctorArg'.options.fields ELSE {})
           /\ IF ~ctorArg'.given \/ ctorArg'.options.shell = Undefined
              THEN /\ shells' = Append(shells,
                        [class |-> "GriffinNotebookShell", topHidden |-> TRUE,
                         expandCalls |-> 0])
                   /\ superOptions'.shell = Len(shells')
              ELSE /\ shells' = shells
                   /\ superOptions'.shell = ctorArg'.options.shell]_vars

C9_Witness ==
    /\ appBuilt
    /\ ctorArg.given
    /\ ctorArg.options.shell # Undefined
    /\ shells[ctorArg.options.shell].class = "NotebookShell"
    /\ superOptions.shell = ctorArg.options.shell
    /\ superOptions.fields # {}
    /\ ctorMade = 0

---------------------------------------------------------------------------
(* Properties of the menus and theme plugins, checked under SpecPlugins.   *)

\* C7: every activation of the theme plugin calls setTheme exactly once,
\* with 'JupyterLab Dark' when darkTheme is the string 'true' and with
\* 'JupyterLab Light' for any other value and for an option that is not set.
C7_ThemeFromFlag ==
    /\ Len(themeCalls) = themeActivations
    /\ \A i \in 1..Len(themeCalls) :
        themeCalls[i] =
            (IF pageConfig = [k \in {"darkTheme"} |-> "true"]
             THEN "JupyterLab Dark" ELSE "JupyterLab Light")

C7_Witness ==
    /\ themeActivations = 2
    /\ pageConfig = [k \in {"darkTheme"} |-> "true"]
    /\ themeCalls = <<"JupyterLab Dark", "JupyterLab Dark">>

\* C8: once the menus plugin has been activated exactly the file menu and
\* the tabs menu are disposed, after one activation as after two; before,
\* none is.
C8_ExactlyTwoMenus ==
    {m \in Menus : menuDisposed[m]}
        = (IF menuActivations = 0 THEN {} ELSE {"fileMenu", "tabsMenu"})

C8_Witness ==
    /\ menuActivations = 2
    /\ menuDisposed["fileMenu"]
    /\ menuDisposed["tabsMenu"]
    /\ ~menuDisposed["editMenu"]

====
